---- MODULE Spec2Model ----
(***************************************************************************)
(* A model of Neo.js (src/Neo.js): the 2D affine matrix class Neo, its     *)
(* transform methods, inverse, decomposition and the transform-string      *)
(* codec (toCSSString / fromString).                                       *)
(*                                                                         *)
(* NUMBERS.  A JavaScript number is modelled by a 4-tuple <<i, n, d, p>>   *)
(* that stands for the real (i + n/d) * pi^p, with i an integer,           *)
(* 0 <= n < d and n/d in lowest terms.  Finite arithmetic is exact         *)
(* (rounding of IEEE doubles is not modelled); the non-finite values and   *)
(* the sign of zero follow IEEE 754, because the code can produce them     *)
(* (division by a zero determinant):                                       *)
(*     +0 = <<0,0,1,0>>    -0 = <<0,0,-1,0>>                               *)
(*     +Infinity = <<1,0,0,0>>   -Infinity = <<-1,0,0,0>>                  *)
(*     NaN = <<0,0,0,0>>                                                   *)
(* The integer part is kept apart from the fraction so that values such as *)
(* 360 - 1e-7 fit the model checker's 32-bit integers.                     *)
(* Math.sqrt is exact on squares of rationals and the trigonometric        *)
(* functions are exact on the angles whose values are rational (multiples  *)
(* of pi/2 for cos and sin, odd multiples of pi/4 for tan); they are       *)
(* undefined elsewhere, and the callers modelled below stay inside that    *)
(* domain (see Exact).                                                     *)
(***************************************************************************)
EXTENDS Integers, Sequences, FiniteSets, TLC

VARIABLES heap, arrays, last

vars == <<heap, arrays, last>>

----------------------------------------------------------------------------
(* Number layer *)

Abs(k) == IF k < 0 THEN -k ELSE k

RECURSIVE GCD(_, _)
GCD(x, y) == IF y = 0 THEN x ELSE GCD(y, x % y)

Zero == <<0, 0, 1, 0>>
NegZero == <<0, 0, -1, 0>>
PosInf == <<1, 0, 0, 0>>
NegInf == <<-1, 0, 0, 0>>
NaN == <<0, 0, 0, 0>>
Undefined == <<>>

\* an operand that is undefined converts to NaN
IsNaN(x) == x = Undefined \/ (x[3] = 0 /\ x[1] = 0)
IsInf(x) == x[3] = 0 /\ x[1] # 0
IsFinite(x) == x[3] # 0
IsZero(x) == x[3] # 0 /\ x[1] = 0 /\ x[2] = 0

\* the sign bit
Neg(x) == IF IsZero(x) THEN x[3] < 0 ELSE x[1] < 0

SignedZero(neg) == IF neg THEN NegZero ELSE Zero
SignedInf(neg) == IF neg THEN NegInf ELSE PosInf

\* the number (N/D) * pi^p for N/D in lowest terms, D > 0
Mixed(N, D, p) == <<N \div D, N % D, IF N % D = 0 THEN 1 ELSE D, p>>

\* num/den with the sign in the numerator, divided by g
Lowest(num, den, g, p) ==
    IF den < 0 THEN Mixed((-num) \div g, (-den) \div g, p) ELSE Mixed(num \div g, den \div g, p)

\* the number (num/den) * pi^p, den # 0, num # 0
Frac(num, den, p) == Lowest(num, den, GCD(Abs(num), Abs(den)), p)

\* the rational num/den (den # 0); a zero is +0
Q(num, den) == IF num = 0 THEN Zero ELSE Frac(num, den, 0)
I(k) == Q(k, 1)
\* the rational multiple (num/den) of pi
QPi(num, den) == IF num = 0 THEN Zero ELSE Frac(num, den, 1)

\* numerator and denominator of a finite value as an improper fraction
Num(x) == x[1] * x[3] + x[2]
Den(x) == x[3]

Negate(x) ==
    IF IsNaN(x) THEN NaN
    ELSE IF IsInf(x) THEN SignedInf(~Neg(x))
    ELSE IF IsZero(x) THEN SignedZero(~Neg(x))
    ELSE Frac(-Num(x), Den(x), x[4])

Mul(x, y) ==
    IF IsNaN(x) \/ IsNaN(y) THEN NaN
    ELSE IF IsInf(x) \/ IsInf(y)
         THEN IF IsZero(x) \/ IsZero(y) THEN NaN ELSE SignedInf(Neg(x) # Neg(y))
    ELSE IF IsZero(x) \/ IsZero(y) THEN SignedZero(Neg(x) # Neg(y))
    ELSE Frac(Num(x) * Num(y), Den(x) * Den(y), x[4] + y[4])

Div(x, y) ==
    IF IsNaN(x) \/ IsNaN(y) THEN NaN
    ELSE IF IsInf(x) THEN IF IsInf(y) THEN NaN ELSE SignedInf(Neg(x) # Neg(y))
    ELSE IF IsInf(y) THEN SignedZero(Neg(x) # Neg(y))
    ELSE IF IsZero(y) THEN IF IsZero(x) THEN NaN ELSE SignedInf(Neg(x) # Neg(y))
    ELSE IF IsZero(x) THEN SignedZero(Neg(x) # Neg(y))
    ELSE Frac(Num(x) * Den(y), Den(x) * Num(y), x[4] - y[4])

\* the sum of two finite non-zero values of the same power of pi; the
\* integer parts are added apart from the fractions
Carry(i, f, p) ==
    IF i + f[1] = 0 /\ f[2] = 0 THEN Zero ELSE <<i + f[1], f[2], f[3], p>>

\* the sum of the fractions n1/d1 and n2/d2 (d1, d2 > 0) over their least
\* common denominator, g the greatest common divisor of d1 and d2
FracSum(n1, d1, n2, d2, g, p) ==
    IF n1 * (d2 \div g) + n2 * (d1 \div g) = 0 THEN <<0, 0, 1, 0>>
    ELSE Frac(n1 * (d2 \div g) + n2 * (d1 \div g), (d1 \div g) * d2, p)

AddFinite(x, y) ==
    Carry(x[1] + y[1], FracSum(x[2], x[3], y[2], y[3], GCD(x[3], y[3]), x[4]), x[4])

Add(x, y) ==
    CASE IsNaN(x) \/ IsNaN(y) -> NaN
      [] ~IsNaN(x) /\ ~IsNaN(y) /\ IsInf(x) ->
            IF IsInf(y) /\ Neg(x) # Neg(y) THEN NaN ELSE x
      [] IsFinite(x) /\ IsInf(y) -> y
      [] IsZero(x) /\ IsZero(y) -> SignedZero(Neg(x) /\ Neg(y))
      [] IsZero(x) /\ IsFinite(y) /\ ~IsZero(y) -> y
      [] IsFinite(x) /\ ~IsZero(x) /\ IsZero(y) -> x
      [] IsFinite(x) /\ ~IsZero(x) /\ IsFinite(y) /\ ~IsZero(y) /\ x[4] = y[4] ->
            AddFinite(x, y)

Sub(x, y) == Add(x, Negate(y))

\* x < y for positive rationals num1/den1 and num2/den2, by the Euclidean
\* algorithm (no product is formed)
RECURSIVE LtPos(_, _, _, _)
LtPos(n1, d1, n2, d2) ==
    LET q1 == n1 \div d1
        q2 == n2 \div d2
        r1 == n1 % d1
        r2 == n2 % d2
    IN IF q1 # q2 THEN q1 < q2
       ELSE IF r2 = 0 THEN FALSE
       ELSE IF r1 = 0 THEN TRUE
       ELSE LtPos(d2, r2, d1, r1)

\* x < y for finite values of the same power of pi
LtSame(x, y) ==
    IF x[1] # y[1] THEN x[1] < y[1]
    ELSE IF y[2] = 0 THEN FALSE
    ELSE IF x[2] = 0 THEN TRUE
    ELSE LtPos(x[2], Abs(x[3]), y[2], Abs(y[3]))

Times(k, x) == IF IsZero(x) THEN Zero ELSE <<k * x[1] + ((k * x[2]) \div x[3]), (k * x[2]) % x[3], x[3], x[4]>>

Plain(x) == <<x[1], x[2], IF x[2] = 0 THEN 1 ELSE Abs(x[3]), 0>>

\* x < y for finite x, y; a multiple of pi is compared with a rational
\* through 3 < pi < 4, and the comparison is undefined when these bounds
\* do not decide it
LtFinite(x, y) ==
    CASE IsZero(x) /\ IsZero(y) -> FALSE
      [] IsZero(x) /\ ~IsZero(y) -> ~Neg(y)
      [] ~IsZero(x) /\ IsZero(y) -> Neg(x)
      [] ~IsZero(x) /\ ~IsZero(y) /\ Neg(x) # Neg(y) -> Neg(x)
      [] ~IsZero(x) /\ ~IsZero(y) /\ Neg(x) = Neg(y) /\ x[4] = y[4] -> LtSame(x, y)
      [] ~Neg(x) /\ ~IsZero(x) /\ ~Neg(y) /\ ~IsZero(y) /\ x[4] = 1 /\ y[4] = 0
         /\ ~LtSame(Plain(y), Times(4, Plain(x))) -> TRUE
      [] ~Neg(x) /\ ~IsZero(x) /\ ~Neg(y) /\ ~IsZero(y) /\ x[4] = 1 /\ y[4] = 0
         /\ ~LtSame(Times(3, Plain(x)), Plain(y)) -> FALSE
      [] ~Neg(x) /\ ~IsZero(x) /\ ~Neg(y) /\ ~IsZero(y) /\ x[4] = 0 /\ y[4] = 1
         /\ ~LtSame(Times(3, Plain(y)), Plain(x)) -> TRUE
      [] ~Neg(x) /\ ~IsZero(x) /\ ~Neg(y) /\ ~IsZero(y) /\ x[4] = 0 /\ y[4] = 1
         /\ ~LtSame(Plain(x), Times(4, Plain(y))) -> FALSE

\* the JavaScript operators <, >, === on numbers (undefined compares as NaN)
Lt(x, y) ==
    IF x = Undefined \/ y = Undefined THEN FALSE
    ELSE IF IsNaN(x) \/ IsNaN(y) THEN FALSE
    ELSE IF IsInf(x) THEN Neg(x) /\ ~(IsInf(y) /\ Neg(y))
    ELSE IF IsInf(y) THEN ~Neg(y)
    ELSE LtFinite(x, y)

Gt(x, y) == Lt(y, x)

StrictEq(x, y) ==
    IF x = Undefined \/ y = Undefined THEN x = y
    ELSE IF IsNaN(x) \/ IsNaN(y) THEN FALSE
    ELSE IF IsZero(x) /\ IsZero(y) THEN TRUE
    ELSE x = y

\* a number is falsy when it is 0, -0 or NaN; undefined is falsy
Truthy(x) == x # Undefined /\ ~IsNaN(x) /\ ~IsZero(x)

\* the integer in lo..hi whose square is k, by bisection (undefined when k
\* is no square)
RECURSIVE Root(_, _, _)
Root(k, lo, hi) ==
    IF lo = hi THEN CHOOSE r \in {lo} : r * r = k
    ELSE IF (lo + hi + 1) \div 2 <= k \div ((lo + hi + 1) \div 2)
         THEN Root(k, (lo + hi + 1) \div 2, hi)
         ELSE Root(k, lo, ((lo + hi + 1) \div 2) - 1)

IntRoot(k) == Root(k, 0, k)

\* Math.sqrt, exact on the squares of rationals and undefined on the other
\* positive rationals
Sqrt(x) ==
    CASE IsNaN(x) -> NaN
      [] IsInf(x) -> IF Neg(x) THEN NaN ELSE PosInf
      [] IsZero(x) -> x
      [] IsFinite(x) /\ ~IsZero(x) /\ Neg(x) -> NaN
      [] IsFinite(x) /\ ~IsZero(x) /\ ~Neg(x) /\ x[4] = 0 ->
            Q(IntRoot(Num(x)), IntRoot(Den(x)))

\* the fraction of a turn, in quarter turns 0..3, of the angle x (a
\* multiple of pi/2)
Quarter(x) == (2 * x[1] + (IF x[2] = 0 THEN 0 ELSE 1)) % 4

IsQuarterAngle(x) ==
    IsFinite(x) /\ (IsZero(x) \/ (x[4] = 1 /\ (x[2] = 0 \/ (x[2] = 1 /\ x[3] = 2))))

\* x is an odd multiple of pi/4
IsEighthAngle(x) ==
    IsFinite(x) /\ ~IsZero(x) /\ x[4] = 1 /\ x[3] = 4 /\ x[2] \in {1, 3}

\* Math.cos and Math.sin, exact on the multiples of pi/2
Cos(x) ==
    CASE IsNaN(x) \/ IsInf(x) -> NaN
      [] IsQuarterAngle(x) -> CASE Quarter(x) = 0 -> I(1)
                                [] Quarter(x) = 1 -> Zero
                                [] Quarter(x) = 2 -> I(-1)
                                [] Quarter(x) = 3 -> Zero

Sin(x) ==
    CASE IsNaN(x) \/ IsInf(x) -> NaN
      [] IsZero(x) -> x
      [] IsQuarterAngle(x) /\ ~IsZero(x) ->
                           CASE Quarter(x) = 0 -> Zero
                             [] Quarter(x) = 1 -> I(1)
                             [] Quarter(x) = 2 -> Zero
                             [] Quarter(x) = 3 -> I(-1)

\* Math.tan, exact on the multiples of pi and the odd multiples of pi/4
Tan(x) ==
    CASE IsNaN(x) \/ IsInf(x) -> NaN
      [] IsZero(x) -> x
      [] IsQuarterAngle(x) /\ ~IsZero(x) /\ x[2] = 0 -> Zero
      [] IsEighthAngle(x) -> IF (4 * x[1] + x[2]) % 4 = 1 THEN I(1) ELSE I(-1)

\* Math.acos, exact at -1, 0 and 1
Acos(x) ==
    CASE IsNaN(x) \/ IsInf(x) -> NaN
      [] IsZero(x) -> QPi(1, 2)
      [] IsFinite(x) /\ ~IsZero(x) /\ x = I(1) -> Zero
      [] IsFinite(x) /\ ~IsZero(x) /\ x = I(-1) -> QPi(1, 1)
      [] IsFinite(x) /\ ~IsZero(x) /\ x[4] = 0 /\ (Lt(I(1), x) \/ Lt(x, I(-1))) -> NaN

\* Math.atan, exact at -1, 0 and 1 and at the infinities
Atan(x) ==
    CASE IsNaN(x) -> NaN
      [] IsInf(x) -> IF Neg(x) THEN QPi(-1, 2) ELSE QPi(1, 2)
      [] IsZero(x) -> x
      [] IsFinite(x) /\ ~IsZero(x) /\ x = I(1) -> QPi(1, 4)
      [] IsFinite(x) /\ ~IsZero(x) /\ x = I(-1) -> QPi(-1, 4)

\* Math.PI, and the two conversion factors the code writes as decimal
\* literals: 0.01745329251994 (pi / 180) and 57.29577951308232 (180 / pi)
PI == QPi(1, 1)
DEG2RAD == QPi(1, 180)
RAD2DEG == Div(I(180), PI)

----------------------------------------------------------------------------
(* Matrices: the six elements [a, b, c, d, e, f] *)

IdentityElements == <<I(1), Zero, Zero, I(1), Zero, Zero>>

\* the i-th of the arguments P; a missing argument is undefined
At(P, i) == IF i <= Len(P) THEN P[i] ELSE Undefined

\* Seeded fault (C1): the receiver's translation e1, f1 is left out of the
\* product
multiplyNoOrigin(m1, m2) ==
    << Add(Mul(m1[1], At(m2, 1)), Mul(m1[3], At(m2, 2))),
       Add(Mul(m1[2], At(m2, 1)), Mul(m1[4], At(m2, 2))),
       Add(Mul(m1[1], At(m2, 3)), Mul(m1[3], At(m2, 4))),
       Add(Mul(m1[2], At(m2, 3)), Mul(m1[4], At(m2, 4))),
       Add(Mul(m1[1], At(m2, 5)), Mul(m1[3], At(m2, 6))),
       Add(Mul(m1[2], At(m2, 5)), Mul(m1[4], At(m2, 6))) >>

\* Seeded fault (C8): d1 is written for d2 in the element c
multiplyTypo(m1, m2) ==
    << Add(Mul(m1[1], At(m2, 1)), Mul(m1[3], At(m2, 2))),
       Add(Mul(m1[2], At(m2, 1)), Mul(m1[4], At(m2, 2))),
       Add(Mul(m1[1], At(m2, 3)), Mul(m1[3], m1[4])),
       Add(Mul(m1[2], At(m2, 3)), Mul(m1[4], At(m2, 4))),
       Add(Add(Mul(m1[1], At(m2, 5)), Mul(m1[3], At(m2, 6))), m1[5]),
       Add(Add(Mul(m1[2], At(m2, 5)), Mul(m1[4], At(m2, 6))), m1[6]) >>

\* multiply (src/Neo.js 140-164) on the receiver's elements m1 and the
\* elements or six arguments m2
multiply(m1, m2) ==
    LET a1 == m1[1]  a2 == At(m2, 1)
        b1 == m1[2]  b2 == At(m2, 2)
        c1 == m1[3]  c2 == At(m2, 3)
        d1 == m1[4]  d2 == At(m2, 4)
        e1 == m1[5]  e2 == At(m2, 5)
        f1 == m1[6]  f2 == At(m2, 6)
    IN << Add(Mul(a1, a2), Mul(c1, b2)),
          Add(Mul(b1, a2), Mul(d1, b2)),
          Add(Mul(a1, c2), Mul(c1, d2)),
          Add(Mul(b1, c2), Mul(d1, d2)),
          Add(Add(Mul(a1, e2), Mul(c1, f2)), e1),
          Add(Add(Mul(b1, e2), Mul(d1, f2)), f1) >>

translate(m, tx, ty) == multiply(m, <<I(1), Zero, Zero, I(1), tx, ty>>)

translateX(m, tx) == multiply(m, <<I(1), Zero, Zero, I(1), tx, Zero>>)

translateY(m, ty) == multiply(m, <<I(1), Zero, Zero, I(1), Zero, ty>>)

\* sy || sx
OrElse(sy, sx) == IF Truthy(sy) THEN sy ELSE sx

RECURSIVE scale(_, _, _, _, _)
scale(m, sx, sy, ox, oy) ==
    LET sy1 == OrElse(sy, sx)
    IN IF ox # Undefined
       THEN translate(scale(translate(m, Negate(ox), Negate(oy)), sx, sy1, Undefined, Undefined), ox, oy)
       ELSE multiply(m, <<sx, Zero, Zero, sy1, Zero, Zero>>)

scaleX(m, sx) == multiply(m, <<sx, Zero, Zero, I(1), Zero, Zero>>)

scaleY(m, sy) == multiply(m, <<I(1), Zero, Zero, sy, Zero, Zero>>)

rotateRad(m, r) ==
    LET cosR == Cos(r)
        sinR == Sin(r)
    IN multiply(m, <<cosR, sinR, Negate(sinR), cosR, Zero, Zero>>)

RECURSIVE rotate(_, _, _, _)
rotate(m, r, ox, oy) ==
    IF ox # Undefined
    THEN translate(rotate(translate(m, Negate(ox), Negate(oy)), r, Undefined, Undefined), ox, oy)
    ELSE rotateRad(m, Mul(r, DEG2RAD))

flipX(m) == scale(m, I(-1), I(1), Undefined, Undefined)

flipY(m) == scale(m, I(1), I(-1), Undefined, Undefined)

skewXRad(m, ax) == multiply(m, <<I(1), Zero, Tan(ax), I(1), Zero, Zero>>)

skewYRad(m, ay) == multiply(m, <<I(1), Tan(ay), Zero, I(1), Zero, Zero>>)

skewX(m, ax) == skewXRad(m, Mul(ax, DEG2RAD))

skewY(m, ay) == skewYRad(m, Mul(ay, DEG2RAD))

\* Seeded fault (C6): b is not negated
inverseSign(m) ==
    << Div(m[4], Sub(Mul(m[1], m[4]), Mul(m[3], m[2]))),
       Div(m[2], Sub(Mul(m[1], m[4]), Mul(m[3], m[2]))),
       Div(Negate(m[3]), Sub(Mul(m[1], m[4]), Mul(m[3], m[2]))),
       Div(m[1], Sub(Mul(m[1], m[4]), Mul(m[3], m[2]))),
       Div(Sub(Mul(m[3], m[6]), Mul(m[5], m[4])), Sub(Mul(m[1], m[4]), Mul(m[3], m[2]))),
       Div(Sub(Mul(m[5], m[2]), Mul(m[1], m[6])), Sub(Mul(m[1], m[4]), Mul(m[3], m[2]))) >>

\* inverse (src/Neo.js 270-288): no test of the determinant precedes the
\* divisions
inverse(m) ==
    LET determinant == Sub(Mul(m[1], m[4]), Mul(m[3], m[2]))
    IN << Div(m[4], determinant),
          Div(Negate(m[2]), determinant),
          Div(Negate(m[3]), determinant),
          Div(m[1], determinant),
          Div(Sub(Mul(m[3], m[6]), Mul(m[5], m[4])), determinant),
          Div(Sub(Mul(m[5], m[2]), Mul(m[1], m[6])), determinant) >>

\* equals (src/Neo.js 309-338): tolerance || 1e-7, then no element of the
\* receiver above e2 + tolerance or below e2 - tolerance
equals(m1, m2, tolerance) ==
    LET tol == OrElse(tolerance, Q(1, 10000000))
    IN \A i \in 1..6 : ~(Gt(m1[i], Add(m2[i], tol)) \/ Lt(m1[i], Sub(m2[i], tol)))

\* the array returned at src/Neo.js 104-107
applyPoint(m, x, y) ==
    << Add(Add(Mul(m[1], x), Mul(m[3], y)), m[5]),
       Add(Add(Mul(m[2], x), Mul(m[4], y)), m[6]) >>

\* an array [ x, y ] passed as an argument is the pair of its elements; a
\* number (a 4-tuple) and undefined have no length
HasLength(x) == Len(x) = 2

\* Seeded fault (C14): x is overwritten before y is read from the array
applyOverwritten(m, x, y) ==
    IF x # Undefined /\ HasLength(x)
    THEN applyPoint(m, x[1], NaN)
    ELSE applyPoint(m, x, y)

\* apply (src/Neo.js 90-108): the co-ordinates are passed separately or in
\* an array; `precision` is not used
apply(m, x, y) ==
    IF x # Undefined /\ HasLength(x)
    THEN applyPoint(m, x[1], x[2])
    ELSE applyPoint(m, x, y)

----------------------------------------------------------------------------
(* Decomposition *)

\* the value of the field `decomposed` and of Neo.decompose: undefined
\* (never assigned), {} (set), false (singular) or a record of components;
\* a property a record lacks reads as undefined
Dec(kind, tx, ty, sx, sy, sh, rot, rads, degs) ==
    [kind |-> kind, translateX |-> tx, translateY |-> ty, scaleX |-> sx, scaleY |-> sy,
     shear |-> sh, rotate |-> rot, rotationRads |-> rads, rotationDegs |-> degs]

NoDec(kind) ==
    Dec(kind, Undefined, Undefined, Undefined, Undefined, Undefined, Undefined, Undefined, Undefined)

DecUndefined == NoDec("undefined")
DecEmpty == NoDec("empty")
DecFalse == NoDec("false")

\* the record reset() assigns (src/Neo.js 298-305)
DecReset == Dec("record", Zero, Zero, I(1), I(1), Zero, Zero, Undefined, Undefined)

magnitude(v) == Sqrt(Add(Mul(v[1], v[1]), Mul(v[2], v[2])))

dotProduct(v1, v2) == Add(Mul(v1[1], v2[1]), Mul(v1[2], v2[2]))

combine(v1, v2) == <<Add(v1[1], v2[1]), Add(v1[2], v2[2])>>

scalar(v, s) == <<Mul(v[1], s), Mul(v[2], s)>>

\* Seeded fault (C5): a determinant within 1e-7 of zero counts as zero
singularTolerant(m) ==
    ~Gt(Sub(Mul(m[1], m[4]), Mul(m[2], m[3])), Q(1, 10000000))
    /\ ~Lt(Sub(Mul(m[1], m[4]), Mul(m[2], m[3])), Q(-1, 10000000))

\* the test of src/Neo.js 530
singular(m) == StrictEq(Sub(Mul(m[1], m[4]), Mul(m[2], m[3])), Zero)

\* Neo.decompose (src/Neo.js 499-887), step by step; each step receives
\* the values the steps before it have assigned

\* the result, given result.rotate (src/Neo.js 881-886)
decomposeResult(m, mag, scaledShear, sy, rot) ==
    Dec("record", m[5], m[6], mag, sy, Div(scaledShear, sy),
        rot, rot, Mul(rot, Div(I(180), PI)))

\* the rotation, from cosA = a and sinA = b (src/Neo.js 858-879)
decomposeRotate(m, mag, a, b, scaledShear, sy) ==
    decomposeResult(m, mag, scaledShear, sy,
                    IF ~IsNaN(b) /\ ~Lt(b, Zero)
                    THEN Acos(a)
                    ELSE Sub(Mul(I(2), PI), Acos(a)))

\* the y scale, from the desheared y axis vector (src/Neo.js 819-827)
decomposeScaleY(m, mag, a, b, scaledShear) ==
    decomposeRotate(m, mag, a, b, scaledShear,
                    magnitude(combine(scalar(<<a, b>>, Negate(scaledShear)), <<m[3], m[4]>>)))

\* the shear, from the normalised x axis vector [ a, b ] (src/Neo.js 804)
decomposeShear(m, mag, a, b) ==
    decomposeScaleY(m, mag, a, b, dotProduct(<<a, b>>, <<m[3], m[4]>>))

\* the x axis vector normalised (src/Neo.js 703-704)
decomposeNormalise(m, mag) == decomposeShear(m, mag, Div(m[1], mag), Div(m[2], mag))

decompose(m) ==
    IF singular(m) THEN DecFalse
    ELSE decomposeNormalise(m, magnitude(<<m[1], m[2]>>))

----------------------------------------------------------------------------
(* The heap: the Neo instances the caller holds, in order of creation.     *)
(* `elements` is the instance's own array, unless `ref` is not 0: then the *)
(* instance's elements ARE the caller's array arrays[ref] (the constructor *)
(* keeps the array it is given).  `origin` is a history field: the call    *)
(* that produced the current elements, and the elements of that call's     *)
(* receiver.  `last` records the most recent call: the method, the         *)
(* receiver and its elements before the call, the arguments, the instance  *)
(* passed as argument and its elements before the call, the instance       *)
(* returned, the value returned when it is no instance, and, when the      *)
(* argument is the string the preceding call returned, that call (src).    *)

\* the number of instances the caller holds at most
MaxObjs == 3

Tuple(a, b, c, d, e, f) == <<I(a), I(b), I(c), I(d), I(e), I(f)>>

Obj(elems, ref, dec, op, of) ==
    [elements |-> elems, ref |-> ref, decomposed |-> dec, origin |-> [op |-> op, of |-> of]]

Elements(k) == IF heap[k].ref = 0 THEN heap[k].elements ELSE arrays[heap[k].ref]

Refs == 1..Len(heap)

Call(op, recv, args, arg, ret, val) ==
    [op |-> op, recv |-> recv, before |-> IF recv = 0 THEN <<>> ELSE Elements(recv),
     args |-> args, arg |-> arg, argBefore |-> IF arg = 0 THEN <<>> ELSE Elements(arg),
     ret |-> ret, val |-> val, src |-> [op |-> "none", before |-> <<>>, args |-> <<>>]]

\* the instance a method creates with `new Neo()` and then gives the
\* elements m: reset() has assigned `decomposed`, and nothing assigns it again
Fresh(m, op, of) == Obj(m, 0, DecReset, op, of)

\* Seeded fault (C4): a method stores its result in the receiver and
\* returns the receiver
ReturnsReceiver(obj, op, recv, args, arg) ==
    /\ Len(heap) < MaxObjs
    /\ heap' = IF recv = 0 THEN Append(heap, obj) ELSE [heap EXCEPT ![recv] = obj]
    /\ last' = Call(op, recv, args, arg, IF recv = 0 THEN Len(heap) + 1 ELSE recv, <<>>)
    /\ UNCHANGED arrays

\* a call that returns the new instance obj
Returns(obj, op, recv, args, arg) ==
    /\ Len(heap) < MaxObjs
    /\ heap' = Append(heap, obj)
    /\ last' = Call(op, recv, args, arg, Len(heap) + 1, <<>>)
    /\ UNCHANGED arrays

\* new Neo()
NewNeo ==
    Returns(Fresh(IdentityElements, "new", <<>>), "new", 0, <<>>, 0)

\* Seeded fault (C13): the constructor tests `a` for truth
NeoFromArgsTruthy(t) ==
    IF Truthy(t[1])
    THEN Obj(t, 0, DecUndefined, "new", <<>>)
    ELSE Fresh(IdentityElements, "new", <<>>)

\* the instance the constructor makes of six arguments, not an array
\* (src/Neo.js 53-59): the elements, `decomposed` not assigned, if
\* a !== undefined, and reset() otherwise
NeoFromArgs(t) ==
    IF t[1] # Undefined
    THEN Obj(t, 0, DecUndefined, "new", <<>>)
    ELSE Fresh(IdentityElements, "new", <<>>)

\* new Neo( a, b, c, d, e, f )
NewNeoFromArgs(t) ==
    Returns(NeoFromArgs(t), "new", 0, t, 0)

\* var arr = [ a, b, c, d, e, f ]; new Neo( arr ): this.elements = arr
NewNeoFromArray(t) ==
    /\ Len(heap) < MaxObjs
    /\ arrays' = Append(arrays, t)
    /\ heap' = Append(heap, Obj(<<>>, Len(arrays) + 1, DecUndefined, "new", <<>>))
    /\ last' = Call("newFromArray", 0, t, 0, Len(heap) + 1, <<>>)

\* r.multiply( o ), o a Neo instance
CallMultiply(r, o) ==
    Returns(Fresh(multiply(Elements(r), Elements(o)), "multiply", Elements(r)),
            "multiply", r, <<>>, o)

\* r.multiply( a, b, c, d, e, f )
CallMultiplyArgs(r, t) ==
    Returns(Fresh(multiply(Elements(r), t), "multiply", Elements(r)),
            "multiply", r, t, 0)

\* r.inverse(): the instance made by new Neo(), its elements overwritten
CallInverse(r) ==
    Returns(Fresh(inverse(Elements(r)), "inverse", Elements(r)), "inverse", r, <<>>, 0)

\* r.clone()
CallClone(r) ==
    Returns(Obj(Elements(r), 0, DecUndefined, "clone", Elements(r)), "clone", r, <<>>, 0)

\* r.set( a, b, c, d, e, f )
CallSet(r, t) ==
    /\ heap' = [heap EXCEPT ![r] = Obj(t, 0, DecEmpty, "set", <<>>)]
    /\ last' = Call("set", r, t, 0, r, <<>>)
    /\ UNCHANGED arrays

\* r.reset()
CallReset(r) ==
    /\ heap' = [heap EXCEPT ![r] = Obj(IdentityElements, 0, DecReset, "reset", <<>>)]
    /\ last' = Call("reset", r, <<>>, 0, r, <<>>)
    /\ UNCHANGED arrays

\* r.apply( x, y ) and r.apply( [ x, y ] )
CallApply(r, x, y) ==
    /\ last' = Call("apply", r, <<x, y>>, 0, 0, apply(Elements(r), x, y))
    /\ UNCHANGED <<heap, arrays>>

\* arr[ i ] = v by the caller, arr an array it passed to new Neo( arr );
\* the call recorded is the write, its receiver the instance that was
\* constructed from arr (if it still has that array)
ArrayWrite(k, i, v) ==
    /\ arrays' = [arrays EXCEPT ![k][i] = v]
    /\ last' = Call("arrayWrite",
                    IF \E r \in Refs : heap[r].ref = k
                    THEN CHOOSE r \in Refs : heap[r].ref = k ELSE 0,
                    <<I(i), v>>, 0, 0, <<>>)
    /\ UNCHANGED heap

\* The callers modelled here decompose the matrices whose decomposition
\* is exact in the number layer: the x axis vector [ a, b ] lies on an
\* axis (or the matrix is singular or not finite)
Exact(m) ==
    \/ \E i \in 1..6 : ~IsFinite(m[i])
    \/ singular(m)
    \/ IsZero(m[1]) \/ IsZero(m[2])

\* r.decompose(): this.decomposed = Neo.decompose( this )
CallDecompose(r) ==
    /\ Exact(Elements(r))
    /\ heap' = [heap EXCEPT ![r].decomposed = decompose(Elements(r))]
    /\ last' = Call("decompose", r, <<>>, 0, 0, heap'[r].decomposed)
    /\ UNCHANGED arrays

\* Neo.decompose( a, b, c, d, e, f )
CallNeoDecompose(t) ==
    /\ Exact(t)
    /\ last' = Call("Neo.decompose", 0, t, 0, 0, decompose(t))
    /\ UNCHANGED <<heap, arrays>>

----------------------------------------------------------------------------
(* Method lookup by name *)

MethodNames ==
    {"multiply", "translate", "translateX", "translateY", "scale", "scaleX", "scaleY",
     "rotate", "rotateRad", "flipX", "flipY", "skewX", "skewY", "skewXRad", "skewYRad"}

\* matrix[ type ].apply( matrix, P ): the elements of the instance returned
Invoke(m, type, P) ==
    CASE type = "multiply" -> multiply(m, P)
      [] type = "translate" -> translate(m, At(P, 1), At(P, 2))
      [] type = "translateX" -> translateX(m, At(P, 1))
      [] type = "translateY" -> translateY(m, At(P, 1))
      [] type = "scale" -> scale(m, At(P, 1), At(P, 2), At(P, 3), At(P, 4))
      [] type = "scaleX" -> scaleX(m, At(P, 1))
      [] type = "scaleY" -> scaleY(m, At(P, 1))
      [] type = "rotate" -> rotate(m, At(P, 1), At(P, 2), At(P, 3))
      [] type = "rotateRad" -> rotateRad(m, At(P, 1))
      [] type = "flipX" -> flipX(m)
      [] type = "flipY" -> flipY(m)
      [] type = "skewX" -> skewX(m, At(P, 1))
      [] type = "skewY" -> skewY(m, At(P, 1))
      [] type = "skewXRad" -> skewXRad(m, At(P, 1))
      [] type = "skewYRad" -> skewYRad(m, At(P, 1))

\* r.translate( .. ), r.scale( .. ), ... : every transform method returns
\* the instance its final multiply() creates
CallTransform(r, type, P) ==
    Returns(Fresh(Invoke(Elements(r), type, P), type, Elements(r)), type, r, P, 0)

----------------------------------------------------------------------------
(* Transform strings.                                                      *)
(* A string of transform functions is modelled by the sequence of its      *)
(* function-call tokens name(arg,arg,...); the text between tokens is not  *)
(* kept.  A name is the sequence of its characters.  An argument is a      *)
(* number and the suffix written after it: the text of a number converts   *)
(* back to the same number (Number-to-String and back is exact in          *)
(* JavaScript), so the model keeps the number itself, and every rounding   *)
(* the code performs (toFixed) is explicit.                                *)

Param(x, unit) == [num |-> x, unit |-> unit]

Token(name, params) == [name |-> name, params |-> params]

Chars_translate == <<"t", "r", "a", "n", "s", "l", "a", "t", "e">>
Chars_scale == <<"s", "c", "a", "l", "e">>
Chars_rotate == <<"r", "o", "t", "a", "t", "e">>
Chars_skew == <<"s", "k", "e", "w">>
Chars_matrix == <<"m", "a", "t", "r", "i", "x">>

\* the names of src/Neo.js 413-424
transformTypes ==
    << Chars_translate, Chars_translate \o <<"X">>, Chars_translate \o <<"Y">>,
       Chars_scale, Chars_scale \o <<"X">>, Chars_scale \o <<"Y">>,
       Chars_rotate, Chars_skew \o <<"X">>, Chars_skew \o <<"Y">>, Chars_matrix >>

Upper == <<"A", "C", "E", "I", "K", "L", "M", "N", "O", "R", "S", "T", "W", "X", "Y">>
Lower == <<"a", "c", "e", "i", "k", "l", "m", "n", "o", "r", "s", "t", "w", "x", "y">>

\* String.prototype.toLowerCase on the letters that occur in the names
toLowerCase(str) ==
    [k \in 1..Len(str) |->
        IF \E u \in 1..Len(Upper) : Upper[u] = str[k]
        THEN Lower[CHOOSE u \in 1..Len(Upper) : Upper[u] = str[k]]
        ELSE str[k]]

\* the places where pat occurs in str
Occurrences(str, pat) ==
    {k \in 1..(Len(str) - Len(pat) + 1) : SubSeq(str, k, k + Len(pat) - 1) = pat}

\* String.prototype.replace with a string pattern: the first occurrence only
replace(str, pat, rep) ==
    IF Occurrences(str, pat) = {} THEN str
    ELSE LET k == CHOOSE j \in Occurrences(str, pat) : \A l \in Occurrences(str, pat) : j <= l
         IN SubSeq(str, 1, k - 1) \o rep \o SubSeq(str, k + Len(pat), Len(str))

\* the pattern of src/Neo.js 426 matches a token whose name is one of
\* transformTypes, letter case ignored (flag i)
Matches(token) ==
    \E k \in 1..Len(transformTypes) : toLowerCase(transformTypes[k]) = toLowerCase(token.name)

\* src/Neo.js 485
TypeOf(name) ==
    replace(replace(replace(toLowerCase(name), <<"x">>, <<"X">>), <<"y">>, <<"Y">>),
            <<"i", "X">>, <<"i", "x">>)

\* the property of the instance a type names
MethodOf(type) ==
    CASE type = Chars_translate -> "translate"
      [] type = Chars_translate \o <<"X">> -> "translateX"
      [] type = Chars_translate \o <<"Y">> -> "translateY"
      [] type = Chars_scale -> "scale"
      [] type = Chars_scale \o <<"X">> -> "scaleX"
      [] type = Chars_scale \o <<"Y">> -> "scaleY"
      [] type = Chars_rotate -> "rotate"
      [] type = Chars_skew \o <<"X">> -> "skewX"
      [] type = Chars_skew \o <<"Y">> -> "skewY"
      [] type = Chars_matrix -> "multiply"

angleUnits == {"grad", "rad", "deg", "turn"}

\* getParameters (src/Neo.js 431-479): 'px' is removed; an angle unit is
\* removed and the angle converted; any other text is converted by unary +
getParameters(params) ==
    [k \in 1..Len(params) |->
        LET unit == IF params[k].unit = "px" THEN "" ELSE params[k].unit
            x == params[k].num
            rad2deg == Div(I(180), PI)
            grad2deg == Div(I(200), PI)
            turn2deg == I(360)
        IN CASE unit = "rad" -> Mul(x, rad2deg)
             [] unit = "grad" -> Mul(x, grad2deg)
             [] unit = "turn" -> Mul(x, turn2deg)
             [] unit = "deg" -> x
             [] unit = "" -> x
             [] OTHER -> NaN]

\* the matrix the loop of src/Neo.js 484-493 carries into its next round,
\* given the instance returned by the call it made: the call's result is
\* not assigned
Carried(matrix, result) == matrix

RECURSIVE fromStringLoop(_, _)
fromStringLoop(matrix, text) ==
    IF text = <<>> THEN matrix
    ELSE IF ~Matches(Head(text)) THEN fromStringLoop(matrix, Tail(text))
    ELSE LET type == TypeOf(Head(text).name)
             parameters == getParameters(Head(text).params)
         IN fromStringLoop(Carried(matrix, Invoke(matrix, MethodOf(type), parameters)),
                           Tail(text))

\* Neo.fromString (src/Neo.js 411-496): the elements of the instance returned
fromString(text) == fromStringLoop(IdentityElements, text)

RECURSIVE Pow10(_)
Pow10(k) == IF k = 0 THEN 1 ELSE 10 * Pow10(k - 1)

\* +( x.toFixed( digits ) ) for a number x: the magnitude is rounded to
\* `digits` decimals, halves upwards
ToFixed(x, digits) ==
    CASE IsNaN(x) -> NaN
      [] IsInf(x) -> x
      [] IsZero(x) -> x
      [] IsFinite(x) /\ ~IsZero(x) /\ x[4] = 0 ->
            LET mag == IF Neg(x) THEN Negate(x) ELSE x
                scaled == mag[2] * Pow10(digits)
                q == scaled \div mag[3]
                up == IF 2 * (scaled % mag[3]) >= mag[3] THEN 1 ELSE 0
                r == Add(I(mag[1]), Q(q + up, Pow10(digits)))
            IN IF Neg(x) THEN Negate(r) ELSE r

\* the values of the locals of toCSSString: false (or never assigned), a
\* number, or a string of numbers with their suffixes
False == [k |-> "false"]
Number(x) == [k |-> "number", num |-> x]
String(params) == [k |-> "string", params |-> params]

\* the truth value of a local
Holds(v) == IF v.k = "number" THEN Truthy(v.num) ELSE v.k = "string"

\* the text a local contributes between the brackets of its token
Text(v) == IF v.k = "number" THEN <<Param(v.num, "")>> ELSE v.params

\* toString (src/Neo.js 340-342)
toString(m) == <<Token(Chars_matrix, [i \in 1..6 |-> Param(m[i], "")])>>

\* s (src/Neo.js 350-354): +( float ? float.toFixed( precision || 7 ) : false )
s(float, digits) == IF Truthy(float) THEN ToFixed(float, digits) ELSE Zero

\* the locals of toCSSString as their initialisers leave them
\* (src/Neo.js 356-366); scale and translate are not assigned
Locals(d, digits) ==
    LET limit == Q(1, Pow10(digits))
    IN [rotate |-> IF Gt(d.rotate, limit) /\ Lt(d.rotate, Sub(I(360), limit))
                   THEN String(<<Param(s(Mul(d.rotate, RAD2DEG), digits), "deg")>>) ELSE False,
        skewX |-> IF Gt(d.shear, limit) \/ Lt(d.shear, Negate(limit))
                  THEN String(<<Param(s(Mul(Atan(d.shear), RAD2DEG), digits), "deg")>>) ELSE False,
        scaleX |-> IF Gt(d.scaleX, Add(I(1), limit)) \/ Lt(d.scaleX, Sub(I(1), limit))
                   THEN Number(s(d.scaleX, digits)) ELSE False,
        scaleY |-> IF Gt(d.scaleY, Add(I(1), limit)) \/ Lt(d.scaleY, Sub(I(1), limit))
                   THEN Number(s(d.scaleY, digits)) ELSE False,
        translateX |-> IF Gt(d.translateX, limit) \/ Lt(d.translateX, Negate(limit))
                       THEN String(<<Param(s(d.translateX, digits), "px")>>) ELSE False,
        translateY |-> IF Gt(d.translateY, limit) \/ Lt(d.translateY, Negate(limit))
                       THEN String(<<Param(s(d.translateY, digits), "px")>>) ELSE False,
        scale |-> False,
        translate |-> False]

\* src/Neo.js 372-374
DropFullTurn(v) ==
    IF v.rotate = String(<<Param(I(360), "deg")>>) THEN [v EXCEPT !.rotate = False] ELSE v

\* src/Neo.js 376-386
MergeScale(v) ==
    IF v.scaleX # False /\ v.scaleY # False
    THEN [v EXCEPT !.scale = IF StrictEq(v.scaleX.num, v.scaleY.num) THEN v.scaleX
                             ELSE String(<<Param(v.scaleX.num, ""), Param(v.scaleY.num, "")>>),
                   !.scaleX = False,
                   !.scaleY = False]
    ELSE v

\* src/Neo.js 388-391
MergeTranslate(v) ==
    IF v.translateX # False /\ v.translateY # False
    THEN [v EXCEPT !.translate = String(v.translateX.params \o v.translateY.params),
                   !.translateX = False,
                   !.translateY = False]
    ELSE v

\* one element of the array joined at src/Neo.js 394-401: the token, or the
\* empty string
Part(name, x) == IF Holds(x) THEN <<Token(name, Text(x))>> ELSE <<>>

\* src/Neo.js 394-401
Join(v) ==
    Part(Chars_translate, v.translate)
    \o Part(Chars_translate \o <<"X">>, v.translateX)
    \o Part(Chars_translate \o <<"Y">>, v.translateY)
    \o Part(Chars_rotate, v.rotate)
    \o Part(Chars_scale, v.scale)
    \o Part(Chars_skew \o <<"X">>, v.skewX)
    \o Part(Chars_scale \o <<"X">>, v.scaleX)
    \o Part(Chars_scale \o <<"Y">>, v.scaleY)

\* Seeded fault (C12): no fallback; the parts of a matrix that cannot be
\* decomposed are all empty
toCSSStringNoFallback(m, d, precision) ==
    IF d.kind # "false"
    THEN Join(MergeTranslate(MergeScale(DropFullTurn(Locals(d, OrElse(precision, I(7))[1])))))
    ELSE <<>>

\* toCSSString (src/Neo.js 344-407), d the value of this.decompose()
toCSSString(m, d, precision) ==
    IF d.kind # "false"
    THEN Join(MergeTranslate(MergeScale(DropFullTurn(Locals(d, OrElse(precision, I(7))[1])))))
    ELSE <<Token(Chars_matrix, [i \in 1..6 |-> Param(m[i], "")])>>

\* The callers modelled here serialise the matrices whose decomposition
\* is exact and whose shear has an exact arc tangent
ExactShear(d) ==
    IF d.kind = "false" THEN TRUE
    ELSE IF ~IsFinite(d.shear) THEN TRUE
    ELSE d.shear \in {Zero, NegZero, I(1), I(-1)}

\* r.toString()
CallToString(r) ==
    /\ last' = Call("toString", r, <<>>, 0, 0, toString(Elements(r)))
    /\ UNCHANGED <<heap, arrays>>

\* r.toCSSString( precision ): this.decompose() assigns this.decomposed
CallToCSSString(r, precision) ==
    /\ Exact(Elements(r))
    /\ heap' = [heap EXCEPT ![r].decomposed = decompose(Elements(r))]
    /\ ExactShear(heap'[r].decomposed)
    /\ last' = Call("toCSSString", r, <<precision>>, 0, 0,
                    toCSSString(Elements(r), heap'[r].decomposed, precision))
    /\ UNCHANGED arrays

\* Neo.fromString( text ), text a string literal
CallFromString(text) ==
    Returns(Fresh(fromString(text), "fromString", <<>>), "fromString", 0, text, 0)

\* Neo.fromString( r.toCSSString( precision ) ): the string is the one the
\* preceding call returned
CallFromCSSString ==
    /\ last.op = "toCSSString"
    /\ Len(heap) < MaxObjs
    /\ heap' = Append(heap, Fresh(fromString(last.val), "fromString", <<>>))
    /\ last' = [Call("fromString", 0, last.val, 0, Len(heap) + 1, <<>>) EXCEPT
                   !.src = [op |-> last.op, before |-> last.before, args |-> last.args]]
    /\ UNCHANGED arrays

----------------------------------------------------------------------------
(* The callers: the values they pass *)

M_scale2 == Tuple(2, 0, 0, 2, 50, 50)
M_rot == Tuple(3, 1, -1, 3, 100, 100)
M_singular == Tuple(1, 0, 0, 0, 0, 0)
M_unimodular == Tuple(2, 1, 1, 1, 5, 7)
M_flip == Tuple(1, 0, 0, -1, 0, 0)
M_shear == Tuple(1, 0, 2, 2, 0, 0)
M_quarter == Tuple(0, 2, -3, 0, 5, 6)
M_similar == Tuple(0, 2, -2, 0, 0, 6)
M_tiny == <<Q(1, 10000), Zero, Zero, Q(1, 10000), Zero, Zero>>

\* transform calls: the method and its arguments
Transforms ==
    { <<"translate", <<I(50), I(50)>>>>, <<"translateX", <<I(10)>>>>, <<"translateY", <<I(-5)>>>>,
      <<"scale", <<I(4)>>>>, <<"scale", <<I(2), I(3)>>>>, <<"scale", <<I(2), Zero>>>>,
      <<"scale", <<I(2), I(3), I(10), I(20)>>>>,
      <<"scaleX", <<I(3)>>>>, <<"scaleY", <<Q(1, 2)>>>>,
      <<"rotate", <<I(90)>>>>, <<"rotate", <<I(90), I(10), I(20)>>>>, <<"rotateRad", <<PI>>>>,
      <<"flipX", <<>>>>, <<"flipY", <<>>>>,
      <<"skewX", <<I(45)>>>>, <<"skewY", <<I(-45)>>>>,
      <<"skewXRad", <<QPi(1, 4)>>>>, <<"skewYRad", <<QPi(1, 4)>>>> }

\* points: the arguments of apply, separate or in an array
Points ==
    { <<I(10), I(20)>>, <<Zero, Zero>>,
      << <<I(10), I(20)>>, Undefined >>, << <<Zero, I(7)>>, Undefined >> }

Text_readme ==
    << Token(Chars_scale, <<Param(I(2), "")>>),
       Token(Chars_translate, <<Param(I(50), ""), Param(I(100), "")>>) >>

Text_mixed ==
    << Token(<<"R", "O", "T", "A", "T", "E">>, <<Param(I(90), "deg")>>),
       Token(<<"b", "l", "u", "r">>, <<Param(I(3), "px")>>),
       Token(Chars_translate \o <<"X">>, <<Param(I(5), "px")>>) >>

Text_matrix == toString(M_scale2)

----------------------------------------------------------------------------
(* Specifications.  Next is every call on every instance held; the other   *)
(* specifications are callers that keep to one group of methods.           *)

Init ==
    /\ heap = <<>>
    /\ arrays = <<>>
    /\ last = Call("none", 0, <<>>, 0, 0, <<>>)

AllMatrices ==
    {M_scale2, M_rot, M_singular, M_unimodular, M_flip, M_shear, M_quarter, M_similar}

Next ==
    \/ NewNeo
    \/ \E t \in AllMatrices : NewNeoFromArgs(t)
    \/ \E t \in AllMatrices : NewNeoFromArray(t)
    \/ \E r \in Refs, o \in Refs : CallMultiply(r, o)
    \/ \E r \in Refs, t \in AllMatrices : CallMultiplyArgs(r, t)
    \/ \E r \in Refs, c \in Transforms : CallTransform(r, c[1], c[2])
    \/ \E r \in Refs : CallInverse(r)
    \/ \E r \in Refs : CallClone(r)
    \/ \E r \in Refs, t \in AllMatrices : CallSet(r, t)
    \/ \E r \in Refs : CallReset(r)
    \/ \E r \in Refs : CallDecompose(r)
    \/ \E t \in AllMatrices \cup {M_tiny} : CallNeoDecompose(t)
    \/ \E r \in Refs, p \in Points : CallApply(r, p[1], p[2])
    \/ \E k \in 1..Len(arrays), i \in 1..6, v \in {Zero, I(9)} : ArrayWrite(k, i, v)
    \/ \E r \in Refs : CallToString(r)
    \/ \E r \in Refs, p \in {Undefined, I(2)} : CallToCSSString(r, p)
    \/ \E text \in {Text_readme, Text_mixed, Text_matrix} : CallFromString(text)
    \/ CallFromCSSString

Spec == Init /\ [][Next]_vars

\* matrix algebra: construction, multiply, inverse, clone
NextAlgebra ==
    \/ NewNeo
    \/ \E t \in {M_scale2, M_rot, M_singular, M_unimodular, M_flip} : NewNeoFromArgs(t)
    \/ \E t \in {M_scale2} : NewNeoFromArray(t)
    \/ \E r \in Refs, o \in Refs : CallMultiply(r, o)
    \/ \E r \in Refs, t \in {M_rot} : CallMultiplyArgs(r, t)
    \/ \E r \in Refs : CallInverse(r)
    \/ \E r \in Refs : CallClone(r)

SpecAlgebra == Init /\ [][NextAlgebra]_vars

\* the transform methods
NextTransform ==
    \/ NewNeo
    \/ \E t \in {M_scale2, M_rot} : NewNeoFromArgs(t)
    \/ \E t \in {M_scale2} : NewNeoFromArray(t)
    \/ \E r \in Refs, o \in Refs : CallMultiply(r, o)
    \/ \E r \in Refs, t \in {M_rot} : CallMultiplyArgs(r, t)
    \/ \E r \in Refs, c \in Transforms : CallTransform(r, c[1], c[2])

SpecTransform == Init /\ [][NextTransform]_vars

\* decomposition
NextDecompose ==
    \/ \E t \in {M_singular, M_flip, M_shear, M_quarter} : NewNeoFromArgs(t)
    \/ \E r \in Refs : CallDecompose(r)
    \/ \E t \in {M_singular, M_quarter, M_tiny} : CallNeoDecompose(t)

SpecDecompose == Init /\ [][NextDecompose]_vars

\* the transform-string codec
NextCodec ==
    \/ \E t \in {M_scale2, M_singular, M_shear} : NewNeoFromArgs(t)
    \/ \E r \in Refs : CallToString(r)
    \/ \E r \in Refs, p \in {Undefined, I(2)} : CallToCSSString(r, p)
    \/ \E text \in {Text_readme, Text_mixed} : CallFromString(text)
    \/ CallFromCSSString

SpecCodec == Init /\ [][NextCodec]_vars

\* construction and apply
NextConstruct ==
    \/ NewNeo
    \/ \E t \in {M_scale2, M_quarter} : NewNeoFromArgs(t)
    \/ \E t \in {M_scale2, M_quarter} : NewNeoFromArray(t)
    \/ \E r \in Refs, p \in Points : CallApply(r, p[1], p[2])

SpecConstruct == Init /\ [][NextConstruct]_vars

\* the storage of the elements: the caller's writes to an array it passed
\* to the constructor, and the methods that change an instance in place
NextStorage ==
    \/ \E t \in {M_scale2} : NewNeoFromArray(t)
    \/ \E r \in Refs : CallClone(r)
    \/ \E r \in Refs, t \in {M_rot} : CallSet(r, t)
    \/ \E r \in Refs : CallReset(r)
    \/ \E k \in 1..Len(arrays), i \in {1}, v \in {I(9)} : ArrayWrite(k, i, v)

SpecStorage == Init /\ [][NextStorage]_vars

----------------------------------------------------------------------------
(* Properties *)

\* the elements of the second operand of the most recent multiply: those of
\* the instance passed, or the six scalars passed
Operand == IF last.arg # 0 THEN last.argBefore ELSE last.args

Finite(m) == \A i \in 1..6 : IsFinite(m[i])

\* two matrices with the same elements (=== element by element)
Same(m1, m2) == \A i \in 1..6 : StrictEq(m1[i], m2[i])

\* C1: for a receiver [a1..f1] and a second operand [a2..f2], given as an
\* instance or as six scalars, multiply returns
\* [a1*a2 + c1*b2, b1*a2 + d1*b2, a1*c2 + c1*d2, b1*c2 + d1*d2,
\*  a1*e2 + c1*f2 + e1, b1*e2 + d1*f2 + f1]; (2,0,0,2,50,50) multiplied by
\* (3,1,-1,3,100,100) is (6,2,-2,6,250,250).
C1_MultiplyFormula ==
    last.op = "multiply" =>
        LET m1 == last.before
            m2 == Operand
            m3 == Elements(last.ret)
        IN /\ m3[1] = Add(Mul(m1[1], m2[1]), Mul(m1[3], m2[2]))
           /\ m3[2] = Add(Mul(m1[2], m2[1]), Mul(m1[4], m2[2]))
           /\ m3[3] = Add(Mul(m1[1], m2[3]), Mul(m1[3], m2[4]))
           /\ m3[4] = Add(Mul(m1[2], m2[3]), Mul(m1[4], m2[4]))
           /\ m3[5] = Add(Add(Mul(m1[1], m2[5]), Mul(m1[3], m2[6])), m1[5])
           /\ m3[6] = Add(Add(Mul(m1[2], m2[5]), Mul(m1[4], m2[6])), m1[6])
           /\ (m1 = M_scale2 /\ m2 = M_rot => m3 = Tuple(6, 2, -2, 6, 250, 250))

C1_Witness ==
    /\ last.op = "multiply"
    /\ last.arg # 0
    /\ last.before = M_scale2
    /\ last.argBefore = M_rot
    /\ Elements(last.ret) = Tuple(6, 2, -2, 6, 250, 250)

\* the matrix the chained builder calls of a transform string produce: each
\* recognised function is called on the instance the call before it returned
RECURSIVE Fold(_, _)
Fold(matrix, text) ==
    IF text = <<>> THEN matrix
    ELSE IF ~Matches(Head(text)) THEN Fold(matrix, Tail(text))
    ELSE Fold(Invoke(matrix, MethodOf(TypeOf(Head(text).name)), getParameters(Head(text).params)),
              Tail(text))

\* C2: fromString returns the matrix of the chained builder calls, started
\* from the identity, in the order the functions are written;
\* 'scale(2),translate(50,100)' gives (2,0,0,2,100,200).
C2_FromStringFolds ==
    last.op = "fromString" =>
        /\ Elements(last.ret) = Fold(IdentityElements, last.args)
        /\ (last.args = Text_readme => Elements(last.ret) = Tuple(2, 0, 0, 2, 100, 200))

\* the matrix of the most recent decomposition
Decomposed == IF last.op = "decompose" THEN last.before ELSE last.args

\* translate(translateX, translateY) o scale(scaleX, scaleY) o
\* skewX(atan(shear)) o rotateRad(rotate): rotation innermost, translation
\* outermost
Recomposed(d) ==
    rotateRad(skewXRad(scale(translate(IdentityElements, d.translateX, d.translateY),
                             d.scaleX, d.scaleY, Undefined, Undefined),
                       Atan(d.shear)),
              d.rotate)

\* C3: for a non-singular matrix of either determinant sign, recomposing
\* the components decompose returns reproduces the elements of the matrix
\* within the equality tolerance.
C3_RecomposeReproduces ==
    (last.op \in {"decompose", "Neo.decompose"} /\ last.val.kind = "record")
        => equals(Recomposed(last.val), Decomposed, Q(1, 1000000))

\* C4: a transform method and multiply leave the receiver's elements (and
\* those of an instance passed as argument) as they were, and return an
\* instance distinct from the receiver.
C4_ReceiverUnchanged ==
    last.op \in MethodNames =>
        /\ Elements(last.recv) = last.before
        /\ last.ret \in Refs
        /\ last.ret # last.recv
        /\ (last.arg # 0 => Elements(last.arg) = last.argBefore)

C4_Witness ==
    /\ last.op = "rotate"
    /\ Len(last.args) = 3
    /\ last.before = M_scale2
    /\ Elements(last.ret) # last.before
    /\ Elements(last.recv) = M_scale2

\* C5: decompose returns false exactly when a*d - b*c is exactly 0, with no
\* tolerance; otherwise it returns a record with all its components, of
\* which translateX = e and translateY = f; (1,0,0,0,0,0) is not decomposed.
C5_DecomposeFailsIffSingular ==
    last.op \in {"decompose", "Neo.decompose"} =>
        LET m == Decomposed
            det == Sub(Mul(m[1], m[4]), Mul(m[2], m[3]))
        IN /\ (last.val.kind = "false") <=> StrictEq(det, Zero)
           /\ last.val.kind \in {"false", "record"}
           /\ last.val.kind = "record" =>
                /\ last.val.translateX = m[5]
                /\ last.val.translateY = m[6]
                /\ \A x \in {last.val.scaleX, last.val.scaleY, last.val.shear, last.val.rotate} :
                       x # Undefined
           /\ (m = M_singular => last.val.kind = "false")

C5_Witness ==
    /\ last.op = "decompose"
    /\ last.before = M_singular
    /\ last.val.kind = "false"
    /\ heap[last.recv].decomposed.kind = "false"

\* the elements are integers and the determinant is 1 or -1
Unimodular(m) ==
    /\ \A i \in 1..6 : m[i][2] = 0 /\ m[i][4] = 0
    /\ Sub(Mul(m[1], m[4]), Mul(m[2], m[3])) \in {I(1), I(-1)}

\* the most recent call is M.multiply( M.inverse() ), M not singular
InverseProduct ==
    /\ last.op = "multiply"
    /\ last.arg # 0
    /\ heap[last.arg].origin = [op |-> "inverse", of |-> last.before]
    /\ Finite(last.before)
    /\ ~singular(last.before)

\* C6: for a matrix M of non-zero determinant, M.multiply(M.inverse())
\* equals the identity within the tolerance 1e-7, and exactly when the
\* elements of M are integers and the determinant is 1 or -1.
C6_InverseProductIsIdentity ==
    InverseProduct =>
        /\ equals(Elements(last.ret), IdentityElements, Undefined)
        /\ (Unimodular(last.before) => Same(Elements(last.ret), IdentityElements))

C6_Witness ==
    /\ InverseProduct
    /\ last.before = M_rot
    /\ Same(Elements(last.ret), IdentityElements)

\* C7: inverse of a matrix whose determinant is 0 fails (SingularMatrix):
\* it returns no matrix.
C7_SingularInverseFails ==
    (last.op = "inverse" /\ singular(last.before)) => last.ret = 0

\* the instances whose elements are those the caller gave the constructor
Constructed == {k \in Refs : heap[k].origin.op = "new"}

\* C8: multiplication is associative: (A.B).C = A.(B.C), here for the product
\* A.B the most recent multiply returned (A and B any instances held,
\* products and inverses included) and every constructed instance C, on
\* either side.
C8_Associative ==
    (last.op = "multiply" /\ Finite(last.before) /\ Finite(Operand)) =>
        \A k \in Constructed :
            Finite(Elements(k)) =>
                /\ Same(multiply(Elements(last.ret), Elements(k)),
                        multiply(last.before, multiply(Operand, Elements(k))))
                /\ Same(multiply(Elements(k), Elements(last.ret)),
                        multiply(multiply(Elements(k), last.before), Operand))

C8_Witness ==
    /\ last.op = "multiply"
    /\ last.arg # 0
    /\ Finite(last.before) /\ Finite(Operand)
    /\ ~Same(multiply(last.before, Operand), multiply(Operand, last.before))
    /\ \E k \in Constructed :
                       /\ Finite(Elements(k))
                       /\ ~Same(multiply(Elements(last.ret), Elements(k)),
                                multiply(Elements(k), Elements(last.ret)))

\* C9: M.scale(sx, sy) without a pivot equals M.multiply(sx, 0, 0, sy, 0, 0)
\* for every sy given, 0 included; only a call without sy scales by sx on
\* both axes.
C9_ScaleUsesSy ==
    (last.op = "scale" /\ Len(last.args) <= 2) =>
        Elements(last.ret) =
            multiply(last.before,
                     <<last.args[1], Zero, Zero,
                       IF Len(last.args) = 2 THEN last.args[2] ELSE last.args[1],
                       Zero, Zero>>)

\* a composition of a translation, a rotation and a uniform scale:
\* a = d, b = -c, not singular
Similarity(m) ==
    /\ Finite(m)
    /\ StrictEq(m[1], m[4])
    /\ StrictEq(m[2], Negate(m[3]))
    /\ ~singular(m)

\* C10: for a matrix M without shear whose scale is uniform,
\* fromString(M.toCSSString()) equals M within 1e-5.
C10_StringRoundTrip ==
    (/\ last.op = "fromString"
     /\ last.src.op = "toCSSString"
     /\ last.src.args = <<Undefined>>
     /\ Similarity(last.src.before))
        => equals(Elements(last.ret), last.src.before, Q(1, 100000))

\* the place of a token's family in the order translate, rotate, scale, skewX
Rank(name) ==
    CASE name \in {Chars_translate, Chars_translate \o <<"X">>, Chars_translate \o <<"Y">>} -> 1
      [] name = Chars_rotate -> 2
      [] name \in {Chars_scale, Chars_scale \o <<"X">>, Chars_scale \o <<"Y">>} -> 3
      [] name = Chars_skew \o <<"X">> -> 4
      [] OTHER -> 5

\* C11: in the string toCSSString returns for a decomposable matrix the
\* tokens come in the order translate family, rotate, scale family, skewX:
\* no scale, scaleX or scaleY token follows a skewX token.
C11_EmissionOrder ==
    (last.op = "toCSSString" /\ ~singular(last.before)) =>
        \A i \in 1..Len(last.val) : \A j \in 1..Len(last.val) :
            i < j => Rank(last.val[i].name) <= Rank(last.val[j].name)

\* C12: for a singular matrix toCSSString returns the string toString
\* returns, 'matrix(a,b,c,d,e,f)'; for a matrix that is not singular it
\* returns a list of the functions of the decomposition, without a matrix
\* function.
C12_SingularFallsBack ==
    last.op = "toCSSString" =>
        IF singular(last.before)
        THEN /\ last.val = toString(last.before)
             /\ Len(last.val) = 1
             /\ last.val[1].name = Chars_matrix
             /\ \A i \in 1..6 : last.val[1].params[i] = Param(last.before[i], "")
        ELSE \A i \in 1..Len(last.val) : Rank(last.val[i].name) <= 4

C12_Witness ==
    /\ last.op = "toCSSString"
    /\ last.before = M_singular
    /\ last.val = toString(M_singular)
    /\ heap[last.recv].decomposed = DecFalse

\* C13: new Neo() has the elements [1,0,0,1,0,0]; new Neo(a,b,c,d,e,f) and
\* new Neo([a,b,c,d,e,f]) have the elements [a,b,c,d,e,f], also when a = 0.
C13_Construction ==
    /\ (last.op = "new" /\ last.args = <<>>) =>
            Elements(last.ret) = <<I(1), Zero, Zero, I(1), Zero, Zero>>
    /\ (last.op = "new" /\ last.args # <<>>) => Elements(last.ret) = last.args
    /\ last.op = "newFromArray" => Elements(last.ret) = last.args

C13_Witness ==
    /\ last.op = "new"
    /\ last.args = M_quarter
    /\ IsZero(last.args[1])
    /\ Elements(last.ret) = Tuple(0, 2, -3, 0, 5, 6)
    /\ \E k \in Refs : heap[k].ref # 0 /\ Elements(k) = M_quarter

\* the co-ordinates passed to the most recent apply
PointX == IF HasLength(last.args[1]) THEN last.args[1][1] ELSE last.args[1]
PointY == IF HasLength(last.args[1]) THEN last.args[1][2] ELSE last.args[2]

\* C14: apply returns (a*x + c*y + e, b*x + d*y + f) for the point (x,y),
\* passed as two arguments or as an array of two; the identity matrix
\* returns (x,y), also for x = 0 and y = 0.
C14_ApplyFormula ==
    last.op = "apply" =>
        LET m == last.before
        IN /\ last.val = << Add(Add(Mul(m[1], PointX), Mul(m[3], PointY)), m[5]),
                            Add(Add(Mul(m[2], PointX), Mul(m[4], PointY)), m[6]) >>
           /\ (m = IdentityElements =>
                  StrictEq(last.val[1], PointX) /\ StrictEq(last.val[2], PointY))

C14_Witness ==
    /\ last.op = "apply"
    /\ last.before = M_quarter
    /\ last.args = << <<Zero, I(7)>>, Undefined >>
    /\ last.val = <<I(-16), I(6)>>

C14_WitnessIdentity ==
    /\ last.op = "apply"
    /\ last.before = IdentityElements
    /\ last.args = <<Zero, Zero>>
    /\ last.val = <<Zero, Zero>>

\* the most recent call is the second multiply of a chain
\* S.multiply( T ).multiply( R ): its receiver is a product
Chained ==
    /\ last.op = "multiply"
    /\ heap[last.recv].origin.op = "multiply"
    /\ Finite(heap[last.recv].origin.of) /\ Finite(last.before) /\ Finite(Operand)

\* the second operands T for which S.multiply( T ) has the elements of the
\* receiver of the most recent call, S the receiver of the multiply that
\* made it: the elements of the instances held and the six scalars passed
ChainedOperands ==
    {T \in {Elements(k) : k \in Refs} \cup {M_rot} :
        Finite(T) /\ multiply(heap[last.recv].origin.of, T) = last.before}

\* C15: a chain of multiplications composes in the order of the calls:
\* S.multiply(T).multiply(R).apply(p) equals R.apply(T.apply(S.apply(p))),
\* the point transformed by S first, then by T, then by R.
C15_ChainAppliesInCallOrder ==
    Chained =>
        \A T \in ChainedOperands : \A p \in {<<I(10), I(20)>>, <<Zero, Zero>>} :
            LET S == heap[last.recv].origin.of
                R == Operand
                byS == apply(S, p[1], p[2])
                byT == apply(T, byS[1], byS[2])
                byR == apply(R, byT[1], byT[2])
            IN apply(Elements(last.ret), p[1], p[2]) = byR

\* the most recent call is new Neo().scale( sx, sy, px, py ) or
\* new Neo().rotate( r, px, py )
Pivoted ==
    /\ last.before = IdentityElements
    /\ \/ last.op = "scale" /\ Len(last.args) = 4
       \/ last.op = "rotate" /\ Len(last.args) = 3

\* the pivot of that call
Pivot == IF last.op = "scale" THEN <<last.args[3], last.args[4]>> ELSE <<last.args[2], last.args[3]>>

\* C16: a scale or a rotation with a pivot is performed about the pivot:
\* the matrix new Neo().scale(sx, sy, px, py) or new Neo().rotate(r, px, py)
\* maps the point (px,py) to itself.
C16_PivotIsFixed ==
    Pivoted => apply(Elements(last.ret), Pivot[1], Pivot[2]) = Pivot

\* the record d has the six components of the record e
SameComponents(d, e) ==
    /\ d.kind = e.kind
    /\ d.translateX = e.translateX /\ d.translateY = e.translateY
    /\ d.scaleX = e.scaleX /\ d.scaleY = e.scaleY
    /\ d.shear = e.shear /\ d.rotate = e.rotate

\* C17: the field `decomposed` of every instance is unset or empty, or it
\* is the decomposition of the instance's current elements (translateX,
\* translateY, scaleX, scaleY, shear and rotate those of Neo.decompose);
\* it is never the decomposition of another matrix.  The instances compared
\* are those whose decomposition is exact.
C17_CacheConsistent ==
    \A k \in Refs :
        \/ heap[k].decomposed.kind \in {"undefined", "empty"}
        \/ ~(Finite(Elements(k)) /\ Exact(Elements(k)))
        \/ SameComponents(heap[k].decomposed, decompose(Elements(k)))

\* a write by the caller to an array it passed to the constructor changes
\* the elements of no instance
WritesKeptOut ==
    last'.op = "arrayWrite" => \A k \in Refs : Elements(k)' = Elements(k)

\* set and reset change the elements of no instance but their receiver
ChangesKeptIn ==
    last'.op \in {"set", "reset"} =>
        \A k \in Refs \ {last'.recv} : Elements(k)' = Elements(k)

\* C18: the storage of an instance's elements is shared with nothing
\* outside it: after m = new Neo(arr) a write to arr does not change
\* m.elements, and a change in place (set, reset) of an instance a method
\* returned changes neither the receiver nor the argument of that method,
\* nor the other way round.
C18_NoSharedStorage == [][WritesKeptOut /\ ChangesKeptIn]_vars

====
